---- MODULE Spec2Model ----
(***************************************************************************)
(* Request dispatch core of the FMP Universal MCP server (server.py):      *)
(* credential resolution, the retrying request executor, the pagination    *)
(* accumulator, the error classifier and the fmp_call facade, together     *)
(* with the session-binding middleware and the credential tools that       *)
(* write the shared credential store.                                      *)
(*                                                                         *)
(* Python values are records [t, s, n]: t is the type tag, s the string    *)
(* as a sequence of characters, n the integer.  A dict is a function       *)
(* whose DOMAIN is the set of keys present.  A decoded JSON body is a      *)
(* record [type, items, tag].                                              *)
(***************************************************************************)
EXTENDS Integers, Sequences, FiniteSets, TLC

\* ------------------------------------------------------------------ values

None == [t |-> "none", s |-> <<>>, n |-> 0]
Str(chars) == [t |-> "str", s |-> chars, n |-> 0]
IntV(i) == [t |-> "int", s |-> <<>>, n |-> i]

\* Python truthiness of a value: None, "" and 0 are falsy.
Truthy(v) == \/ v.t = "str" /\ v.s # <<>>
             \/ v.t = "int" /\ v.n # 0

RECURSIVE LStrip(_)
LStrip(chars) == IF chars # <<>> /\ Head(chars) = " " THEN LStrip(Tail(chars)) ELSE chars

RECURSIVE RStrip(_)
RStrip(chars) ==
    IF chars # <<>> /\ chars[Len(chars)] = " "
    THEN RStrip(SubSeq(chars, 1, Len(chars) - 1))
    ELSE chars

\* str.strip() on a string value.
Strip(v) == Str(RStrip(LStrip(v.s)))

\* dict(d) with d[k] = v applied.
DictSet(d, k, v) == [x \in DOMAIN d \cup {k} |-> IF x = k THEN v ELSE d[x]]

\* d.pop(k, None)
DictPop(d, k) == [x \in DOMAIN d \ {k} |-> d[x]]

EmptyDict == [x \in {} |-> None]

\* ------------------------------------------------------------------ bounds and input sets

\* Session identifiers a request can carry; "" is the absent header (falsy).
Sids == {"s1", "s2"}
SidHeaders == {""} \cup Sids

\* Concurrent requests inside the middleware.
ReqIds == {"r1", "r2"}

\* Transport-level key of a request (X-FMP-Api-Key header or apiKey query).
TransportKeys == {None, Str(<<" ">>), Str(<<" ", "a">>)}

\* Arguments of set_fmp_api_key.
ToolKeys == {Str(<<>>), Str(<<" ">>), Str(<<"b">>)}

\* registered[s] is the key the last successful set_fmp_api_key of session s
\* stored, None before any and after a clear_fmp_api_key of s: a record of
\* what the tools did, read by no handler.
VARIABLES SESSION_FMP_KEYS, DEFAULT_FMP_KEY_FROM_URL, defaultFrom, registered, req, call

vars == <<SESSION_FMP_KEYS, DEFAULT_FMP_KEY_FROM_URL, defaultFrom, registered, req, call>>

\* ------------------------------------------------------------------ strings of the dispatch core

\* str.lower() character by character; a character here is an atom of the
\* string ("stable", "V3", "/", "https://", a word of a body).
LowerChar(c) ==
    CASE c = "STABLE" -> "stable"
      [] c = "V3" -> "v3"
      [] c = "V4" -> "v4"
      [] c = "API" -> "api"
      [] c = "Legacy" -> "legacy"
      [] c = "RAW" -> "raw"
      [] c = "Upgrade" -> "upgrade"
      [] c = "PLAN" -> "plan"
      [] c = "Quota" -> "quota"
      [] OTHER -> c

Lower(v) == Str([i \in 1..Len(v.s) |-> LowerChar(v.s[i])])

\* s[:n]
Take(chars, n) == SubSeq(chars, 1, IF Len(chars) < n THEN Len(chars) ELSE n)

\* A _norm_path that compares the service tag as it was written.
NormPathCaseSensitive(service, endpoint) ==
    LET svc == Strip(service).s
        e == endpoint.s
    IN  IF e # <<>> /\ Head(e) \in {"http://", "https://"} THEN endpoint
        ELSE IF e # <<>> /\ Head(e) = "/" THEN endpoint
        ELSE IF svc = <<"stable">> THEN Str(<<"/", "stable", "/">> \o e)
        ELSE IF svc = <<"v3">> THEN Str(<<"/", "api", "/", "v3", "/">> \o e)
        ELSE IF svc = <<"v4">> THEN Str(<<"/", "api", "/", "v4", "/">> \o e)
        ELSE IF svc \in {<<"api">>, <<"legacy">>} THEN Str(<<"/", "api", "/", "v3", "/">> \o e)
        ELSE IF svc = <<"raw">> THEN Str(<<"/">> \o e)
        ELSE Str(<<"/", "stable", "/">> \o e)

\* A _norm_path without the test for a leading "/".
NormPathSchemeOnly(service, endpoint) ==
    LET svc == Strip(Lower(service)).s
        e == endpoint.s
    IN  IF e # <<>> /\ Head(e) \in {"http://", "https://"} THEN endpoint
        ELSE IF svc = <<"stable">> THEN Str(<<"/", "stable", "/">> \o e)
        ELSE IF svc = <<"v3">> THEN Str(<<"/", "api", "/", "v3", "/">> \o e)
        ELSE IF svc = <<"v4">> THEN Str(<<"/", "api", "/", "v4", "/">> \o e)
        ELSE IF svc \in {<<"api">>, <<"legacy">>} THEN Str(<<"/", "api", "/", "v3", "/">> \o e)
        ELSE IF svc = <<"raw">> THEN Str(<<"/">> \o e)
        ELSE Str(<<"/", "stable", "/">> \o e)

\* _norm_path(service, endpoint)
NormPath(service, endpoint) ==
    LET svc == Strip(Lower(service)).s
        e == endpoint.s
    IN  IF e # <<>> /\ Head(e) \in {"http://", "https://"} THEN endpoint
        ELSE IF e # <<>> /\ Head(e) = "/" THEN endpoint
        ELSE IF svc = <<"stable">> THEN Str(<<"/", "stable", "/">> \o e)
        ELSE IF svc = <<"v3">> THEN Str(<<"/", "api", "/", "v3", "/">> \o e)
        ELSE IF svc = <<"v4">> THEN Str(<<"/", "api", "/", "v4", "/">> \o e)
        ELSE IF svc \in {<<"api">>, <<"legacy">>} THEN Str(<<"/", "api", "/", "v3", "/">> \o e)
        ELSE IF svc = <<"raw">> THEN Str(<<"/">> \o e)
        ELSE Str(<<"/", "stable", "/">> \o e)

\* ------------------------------------------------------------------ credential resolution

\* The alias tuple of _resolve_user_fmp_key, in the order the loop visits it.
KeyAliases == <<"apiKey", "apikey", "api_key">>

\* Indices of the aliases that are present in qp with a truthy value.
AliasHits(qp) == {i \in 1..Len(KeyAliases) : KeyAliases[i] \in DOMAIN qp /\ Truthy(qp[KeyAliases[i]])}

FirstAlias(qp) == KeyAliases[CHOOSE i \in AliasHits(qp) : \A j \in AliasHits(qp) : i <= j]

\* A mis-ordered resolver: the session-stored credential is consulted before
\* the explicit parameter.
ResolveSessionFirst(qp, sid, store, default) ==
    IF sid # "" /\ sid \in DOMAIN store THEN store[sid]
    ELSE IF AliasHits(qp) # {} THEN Strip(qp[FirstAlias(qp)])
    ELSE IF Truthy(default) THEN default
    ELSE None

\* _resolve_user_fmp_key(qp), reading CURRENT_SESSION_ID (sid), SESSION_FMP_KEYS
\* (store) and DEFAULT_FMP_KEY_FROM_URL (default).  The explicit values drawn
\* here are strings, so str(qp[k]) is qp[k].
ResolveUserFmpKey(qp, sid, store, default) ==
    IF AliasHits(qp) # {} THEN Strip(qp[FirstAlias(qp)])
    ELSE IF sid # "" /\ sid \in DOMAIN store THEN store[sid]
    ELSE IF Truthy(default) THEN default
    ELSE None

\* ------------------------------------------------------------------ error classification

\* Rows of FMP_CATALOG that _plan_hint_for can match (service, endpoint, plan_hint).
FMP_CATALOG ==
    { [service |-> Str(<<"stable">>), endpoint |-> Str(<<"quote">>), plan_hint |-> Str(<<"Starter+">>)],
      [service |-> Str(<<"stable">>), endpoint |-> Str(<<"search-name">>), plan_hint |-> Str(<<"Basic(EOD)">>)] }

PlanHintFor(service, endpoint) ==
    LET hits == {it \in FMP_CATALOG : it.service = service /\ it.endpoint = endpoint}
    IN  IF hits = {} THEN None ELSE (CHOOSE it \in hits : TRUE).plan_hint

PlanKeywords == {"plan", "upgrade", "permission", "not allowed", "access", "payment", "quota", "rate limit"}

\* any(k in t for k in [...]) on the lower-cased body.
PlanLike(body_text) == \E i \in 1..Len(body_text.s) : LowerChar(body_text.s[i]) \in PlanKeywords

StatusCode(status) ==
    IF status = 401 THEN "AUTH_INVALID"
    ELSE IF status = 402 THEN "PAYMENT_REQUIRED"
    ELSE IF status = 403 THEN "PLAN_OR_PERMISSION"
    ELSE IF status = 429 THEN "RATE_LIMIT"
    ELSE IF status = 404 THEN "NOT_FOUND"
    ELSE IF status >= 500 THEN "UPSTREAM_ERROR"
    ELSE "UNKNOWN"

StatusSuggestion(status) ==
    IF status = 401 THEN <<"check-key">>
    ELSE IF status = 402 THEN <<"pay-or-upgrade">>
    ELSE IF status = 403 THEN <<"plan-cannot-access">>
    ELSE IF status = 429 THEN <<"slow-down-or-upgrade">>
    ELSE IF status = 404 THEN <<"recheck-endpoint">>
    ELSE IF status >= 500 THEN <<"retry-later">>
    ELSE <<>>

\* A classifier whose keyword rule has no exception for 404.
ClassifyKeywordOn404(service, endpoint, status, body_text) ==
    LET plan_hint == PlanHintFor(service, endpoint)
        needs_confirm == \/ status \in {401, 402, 403}
                         \/ PlanLike(body_text)
        suggested == StatusSuggestion(status)
                     \o (IF Truthy(plan_hint) THEN <<"plan-hint">> ELSE <<>>)
    IN  [code |-> StatusCode(status),
         status |-> status,
         needs_user_confirmation |-> needs_confirm,
         message |-> Str(Take(body_text.s, 300)),
         plan_hint |-> plan_hint,
         suggested_action |-> suggested,
         endpoint |-> endpoint,
         service |-> service]

\* A classifier that lets plan wording in the body decide the code of a
\* status it has no row for.
ClassifyByBody(service, endpoint, status, body_text) ==
    LET plan_hint == PlanHintFor(service, endpoint)
        needs_confirm == \/ status \in {401, 402, 403}
                         \/ PlanLike(body_text) /\ status # 404
        suggested == StatusSuggestion(status)
                     \o (IF Truthy(plan_hint) THEN <<"plan-hint">> ELSE <<>>)
    IN  [code |-> IF PlanLike(body_text) /\ StatusCode(status) = "UNKNOWN"
                  THEN "PLAN_OR_PERMISSION" ELSE StatusCode(status),
         status |-> status,
         needs_user_confirmation |-> needs_confirm,
         message |-> Str(Take(body_text.s, 300)),
         plan_hint |-> plan_hint,
         suggested_action |-> suggested,
         endpoint |-> endpoint,
         service |-> service]

\* _classify_fmp_http_error(service, endpoint, status, body_text)
ClassifyFmpHttpError(service, endpoint, status, body_text) ==
    LET plan_hint == PlanHintFor(service, endpoint)
        needs_confirm == \/ status \in {401, 402, 403}
                         \/ PlanLike(body_text) /\ status # 404
        suggested == StatusSuggestion(status)
                     \o (IF Truthy(plan_hint) THEN <<"plan-hint">> ELSE <<>>)
    IN  [code |-> StatusCode(status),
         status |-> status,
         needs_user_confirmation |-> needs_confirm,
         message |-> Str(Take(body_text.s, 300)),
         plan_hint |-> plan_hint,
         suggested_action |-> suggested,
         endpoint |-> endpoint,
         service |-> service]

\* json.loads(msg) for a message that starts with "{": the text of an object
\* is <<"{", k1, v1, ..., kn, vn, "}">>; anything else does not parse.
IsJsonObjectText(chars) ==
    /\ Len(chars) >= 2
    /\ Head(chars) = "{"
    /\ chars[Len(chars)] = "}"
    /\ (Len(chars) - 2) % 2 = 0

JsonLoads(chars) ==
    LET n == (Len(chars) - 2) \div 2
        keys == {chars[2 * i] : i \in 1..n}
    IN  [k \in keys |-> chars[1 + 2 * (CHOOSE i \in 1..n : chars[2 * i] = k)]]

\* An _error_payload_from_exception without the json.loads branch.
ErrorPayloadAlwaysClient(e) ==
    [code |-> "CLIENT_ERROR", message |-> Str(Take(e.msg, 500)), needs_user_confirmation |-> FALSE]

\* _error_payload_from_exception(e); e.args[0] and str(e) are e.msg.
ErrorPayloadFromException(e) ==
    IF e.msg # <<>> /\ Head(e.msg) = "{" /\ IsJsonObjectText(e.msg)
    THEN JsonLoads(e.msg)
    ELSE [code |-> "CLIENT_ERROR", message |-> Str(Take(e.msg, 500)), needs_user_confirmation |-> FALSE]

\* The payload fmp_call returns when no credential resolves.
MissingApiKeyPayload ==
    [code |-> "MISSING_API_KEY",
     needs_user_confirmation |-> FALSE,
     suggest_web_search |-> TRUE,
     message |-> Str(<<"pass ?apiKey= in the MCP URL">>),
     explain_to_user |-> Str(<<"add ?apiKey=<YOUR_FMP_KEY>">>)]

\* ------------------------------------------------------------------ upstream responses and exceptions

\* Decoded JSON bodies: a list of values, an object (its content is the
\* sequence of numbers in tag; {} has none), or a falsy scalar (null, 0, "").
JsonList(items) == [type |-> "list", items |-> items, tag |-> <<>>]
JsonObject(tag) == [type |-> "object", items |-> <<>>, tag |-> tag]
JsonNull == [type |-> "null", items |-> <<>>, tag |-> <<>>]

\* The i-th row of the page the upstream serves for page index pg.
Row(pg, i) == JsonObject(<<pg, i>>)

\* `not chunk`
Falsy(chunk) ==
    \/ chunk.type = "null"
    \/ chunk.type = "list" /\ chunk.items = <<>>
    \/ chunk.type = "object" /\ chunk.tag = <<>>

\* What the upstream can answer to one request for page index pg.
OkBodies(pg) ==
    { JsonList(<<Row(pg, 1), Row(pg, 2)>>), JsonList(<<>>), JsonObject(<<pg, 0>>), JsonObject(<<>>), JsonNull }

NoBody == JsonNull

RespOk(body) == [kind |-> "ok", status |-> 200, text |-> Str(<<>>), json |-> body]
RespMalformed == [kind |-> "malformed", status |-> 200, text |-> Str(<<"<html>">>), json |-> NoBody]
RespStatus(st, text) == [kind |-> "status", status |-> st, text |-> text, json |-> NoBody]
RespTransport(msg) == [kind |-> "transport", status |-> 0, text |-> Str(msg), json |-> NoBody]

\* Exceptions that travel from _request_json to fmp_call.
HTTPStatusError(st, text) == [type |-> "HTTPStatusError", status |-> st, text |-> text, msg |-> <<"HTTP status error">>]
JSONDecodeError == [type |-> "JSONDecodeError", status |-> 0, text |-> Str(<<>>), msg |-> <<"Expecting value">>]
TransportError(msg) == [type |-> "TransportError", status |-> 0, text |-> Str(<<>>), msg |-> msg]
ApikeyMissingError == [type |-> "RuntimeError", status |-> 0, text |-> Str(<<>>), msg |-> <<"FMP apikey is missing.">>]

\* The exception one attempt ends in: raise_for_status() for a non-2xx status,
\* resp.json() for an undecodable body, client.request() for a transport fault.
ExceptionOf(resp) ==
    IF resp.kind = "status" THEN HTTPStatusError(resp.status, resp.text)
    ELSE IF resp.kind = "malformed" THEN JSONDecodeError
    ELSE TransportError(resp.text.s)

\* The tag an attempt leaves in the attempt trace.
TagOf(resp) ==
    IF resp.kind = "status" THEN resp.status
    ELSE IF resp.kind = "ok" THEN 200
    ELSE IF resp.kind = "malformed" THEN -2
    ELSE -1

\* ------------------------------------------------------------------ request executor

\* Default of _request_json's max_retries, the value fmp_call runs with.
max_retries == 3

RetryStatuses == {429, 500, 502, 503, 504}

\* A retry policy that gives up on every HTTP status.
ShouldRetryNever(e, attempt) == e.type # "HTTPStatusError" /\ attempt < max_retries

\* A retry policy that allows one retry too many.
ShouldRetryOneMore(e, attempt) ==
    IF e.type = "HTTPStatusError"
    THEN e.status \in RetryStatuses /\ attempt <= max_retries
    ELSE attempt <= max_retries

\* A retry policy that retries whatever the status is.
ShouldRetryAnyStatus(e, attempt) == attempt < max_retries

\* A retry policy that takes every 5xx status for transient.
ShouldRetryAll5xx(e, attempt) ==
    IF e.type = "HTTPStatusError"
    THEN (e.status = 429 \/ e.status >= 500) /\ attempt < max_retries
    ELSE attempt < max_retries

\* The two except clauses of _request_json: sleep and retry, or re-raise.
ShouldRetry(e, attempt) ==
    IF e.type = "HTTPStatusError"
    THEN e.status \in RetryStatuses /\ attempt < max_retries
    ELSE attempt < max_retries

RECURSIVE Pow2(_)
Pow2(k) == IF k <= 0 THEN 1 ELSE 2 * Pow2(k - 1)

\* A back-off that grows by one time-unit a retry.
BackoffUnitsLinear(attempt) == attempt + 1

\* Whole time-units of time.sleep((2 ** attempt) + random.random()).
BackoffUnits(attempt) == Pow2(attempt)

\* The argument of that time.sleep in tenths of a time-unit, random.random()
\* having returned j tenths.
SleepTenths(attempt, j) == 10 * BackoffUnits(attempt) + j

\* ------------------------------------------------------------------ the fmp_call frame

NoResult == [kind |-> "none", value |-> JsonNull]
Payload(v) == [kind |-> "payload", value |-> v]
ErrorResult(err) == [kind |-> "_error", value |-> err]
Raised(e) == [kind |-> "raised", value |-> e]

NoArgs ==
    [endpoint |-> Str(<<>>), service |-> Str(<<>>), params |-> EmptyDict, symbol |-> None,
     paginate |-> FALSE, page_param |-> "page", start_page |-> 0, max_pages |-> 0]

\* The frame of the fmp_call in progress: its arguments and locals, the
\* locals of the _paginate and _request_json it is inside, and a record of
\* what it has put on the network: chunks are the values _request_json
\* handed back, params0 is the params map as the caller passed it, body is
\* the response text (or the exception text) of the failure on its way to
\* the except clauses of fmp_call.
IdleCall ==
    [pc |-> "idle", owner |-> "none", sid |-> "", args |-> NoArgs,
     store0 |-> EmptyDict, default0 |-> None,
     url_or_path |-> Str(<<>>), qp |-> EmptyDict, user_key |-> None,
     p |-> EmptyDict, page |-> 0, iter |-> 0, all_rows |-> <<>>, attempt |-> 0,
     nAttempts |-> 0, nFetch |-> 0, trace |-> <<>>, sleeps |-> <<>>, delay |-> 0,
     lastSent |-> EmptyDict, failedPage |-> FALSE, chunks |-> <<>>,
     params0 |-> EmptyDict, body |-> Str(<<>>), result |-> NoResult]

\* fmp_call returns v.
Return(f, v) == [f EXCEPT !.pc = "done", !.result = Payload(v)]

\* An fmp_call that lets every exception but HTTPStatusError escape.
CatchOnlyHttp(f, e) ==
    [f EXCEPT !.pc = "done",
              !.failedPage = f.args.paginate,
              !.result = IF e.type = "HTTPStatusError"
                         THEN ErrorResult(ClassifyFmpHttpError(f.args.service, f.args.endpoint, e.status, e.text))
                         ELSE Raised(e)]

\* An fmp_call that hands back the rows gathered so far when a page fails.
CatchKeepRows(f, e) ==
    [f EXCEPT !.pc = "done",
              !.failedPage = f.args.paginate,
              !.result = IF f.all_rows # <<>> THEN Payload(JsonList(f.all_rows))
                         ELSE IF e.type = "HTTPStatusError"
                         THEN ErrorResult(ClassifyFmpHttpError(f.args.service, f.args.endpoint, e.status, e.text))
                         ELSE ErrorResult(ErrorPayloadFromException(e))]

\* Exception e leaves _paginate: the two except clauses of fmp_call.
Catch(f, e) ==
    [f EXCEPT !.pc = "done",
              !.failedPage = f.args.paginate,
              !.result = IF e.type = "HTTPStatusError"
                         THEN ErrorResult(ClassifyFmpHttpError(f.args.service, f.args.endpoint, e.status, e.text))
                         ELSE ErrorResult(ErrorPayloadFromException(e))]

\* The guard at the head of _request_json.
ApikeyMissing(qp) == "apikey" \notin DOMAIN qp \/ ~Truthy(qp["apikey"])

\* _request_json(method, url_or_path, params) up to its first attempt.
RequestJsonEnter(f, params) ==
    IF ApikeyMissing(params)
    THEN Catch(f, ApikeyMissingError)
    ELSE [f EXCEPT !.pc = "request", !.p = params, !.attempt = 0,
                   !.trace = <<>>, !.sleeps = <<>>, !.delay = 0, !.nFetch = f.nFetch + 1]

\* One turn of the for loop of _paginate up to the call of _request_json.
StartFetch(f) == RequestJsonEnter(f, DictSet(f.qp, f.args.page_param, IntV(f.page)))

\* A loop of _paginate that runs one turn too many.
NextIterOneMore(f) ==
    LET g == [f EXCEPT !.page = f.page + 1, !.iter = f.iter + 1]
    IN  IF g.iter <= g.args.max_pages THEN StartFetch(g) ELSE Return(g, JsonList(g.all_rows))

\* The bottom of the loop body and the loop test of _paginate.
NextIter(f) ==
    LET g == [f EXCEPT !.page = f.page + 1, !.iter = f.iter + 1]
    IN  IF g.iter < g.args.max_pages THEN StartFetch(g) ELSE Return(g, JsonList(g.all_rows))

\* A _paginate that goes on to the next page after a non-list object.
AfterChunkNoBreak(f, chunk) ==
    IF ~f.args.paginate THEN Return(f, chunk)
    ELSE IF Falsy(chunk) THEN Return(f, JsonList(f.all_rows))
    ELSE IF chunk.type = "list" THEN NextIter([f EXCEPT !.all_rows = f.all_rows \o chunk.items])
    ELSE NextIter([f EXCEPT !.all_rows = Append(f.all_rows, chunk)])

\* A _paginate that puts each new page in front of the rows it has.
AfterChunkPrepend(f, chunk) ==
    IF ~f.args.paginate THEN Return(f, chunk)
    ELSE IF Falsy(chunk) THEN Return(f, JsonList(f.all_rows))
    ELSE IF chunk.type = "list" THEN NextIter([f EXCEPT !.all_rows = chunk.items \o f.all_rows])
    ELSE LET g == [f EXCEPT !.all_rows = Append(f.all_rows, chunk)]
         IN  Return(g, JsonList(g.all_rows))

\* _request_json returned chunk: the rest of _paginate.
AfterChunk(f, chunk) ==
    IF ~f.args.paginate THEN Return(f, chunk)
    ELSE IF Falsy(chunk) THEN Return(f, JsonList(f.all_rows))
    ELSE IF chunk.type = "list" THEN NextIter([f EXCEPT !.all_rows = f.all_rows \o chunk.items])
    ELSE LET g == [f EXCEPT !.all_rows = Append(f.all_rows, chunk)]
         IN  Return(g, JsonList(g.all_rows))

\* A _paginate that goes into its page loop whatever the paginate flag says.
PaginateEnterAlways(f) ==
    LET g == [f EXCEPT !.all_rows = <<>>, !.page = f.args.start_page, !.iter = 0]
    IN  IF g.iter < g.args.max_pages THEN StartFetch(g) ELSE Return(g, JsonList(<<>>))

\* _paginate(method, url_or_path, params, paginate, page_param, start_page, max_pages)
\* up to its first request.
PaginateEnter(f) ==
    IF ~f.args.paginate THEN RequestJsonEnter(f, f.qp)
    ELSE LET g == [f EXCEPT !.all_rows = <<>>, !.page = f.args.start_page, !.iter = 0]
         IN  IF g.iter < g.args.max_pages THEN StartFetch(g) ELSE Return(g, JsonList(<<>>))

\* A facade that goes on without a credential.
KeyMissingNever(user_key) == FALSE

\* `if not user_key` of fmp_call.
KeyMissing(user_key) == ~Truthy(user_key)

\* An fmp_call that works on the caller's params map instead of a copy: the
\* symbol and the resolved credential end up in the caller's map.
FmpCallEnterNoCopy(owner, sid, args) ==
    LET qp0 == args.params
        qp1 == IF Truthy(args.symbol) /\ "symbol" \notin DOMAIN qp0
               THEN DictSet(qp0, "symbol", args.symbol) ELSE qp0
        user_key == ResolveUserFmpKey(qp1, sid, SESSION_FMP_KEYS, DEFAULT_FMP_KEY_FROM_URL)
        f == [IdleCall EXCEPT !.owner = owner, !.sid = sid, !.args = [args EXCEPT !.params = qp1],
                              !.params0 = args.params,
                              !.store0 = SESSION_FMP_KEYS, !.default0 = DEFAULT_FMP_KEY_FROM_URL,
                              !.url_or_path = NormPath(args.service, args.endpoint),
                              !.qp = qp1, !.user_key = user_key]
    IN  IF KeyMissing(user_key)
        THEN [f EXCEPT !.pc = "done", !.result = ErrorResult(MissingApiKeyPayload)]
        ELSE PaginateEnter([f EXCEPT !.qp = DictSet(qp1, "apikey", user_key),
                                     !.args.params = DictSet(qp1, "apikey", user_key)])

\* fmp_call(endpoint, service, params, symbol, paginate, ...) called in the
\* context of session sid, up to its first network attempt.
FmpCallEnter(owner, sid, args) ==
    LET qp0 == args.params
        qp1 == IF Truthy(args.symbol) /\ "symbol" \notin DOMAIN qp0
               THEN DictSet(qp0, "symbol", args.symbol) ELSE qp0
        user_key == ResolveUserFmpKey(qp1, sid, SESSION_FMP_KEYS, DEFAULT_FMP_KEY_FROM_URL)
        f == [IdleCall EXCEPT !.owner = owner, !.sid = sid, !.args = args,
                              !.params0 = args.params,
                              !.store0 = SESSION_FMP_KEYS, !.default0 = DEFAULT_FMP_KEY_FROM_URL,
                              !.url_or_path = NormPath(args.service, args.endpoint),
                              !.qp = qp1, !.user_key = user_key]
    IN  IF KeyMissing(user_key)
        THEN [f EXCEPT !.pc = "done", !.result = ErrorResult(MissingApiKeyPayload)]
        ELSE PaginateEnter([f EXCEPT !.qp = DictSet(qp1, "apikey", user_key)])

\* ------------------------------------------------------------------ arguments and upstream answers drawn by the actions

\* Largest max_pages and start_page an fmp_call is given.
MaxPagesArg == 2
MaxStartPage == 1

\* Tenths of a time-unit random.random() contributes to one back-off.
Jitters == {0, 9}

AAPL == Str(<<"AAPL">>)

DefaultArgs ==
    [endpoint |-> Str(<<"quote">>), service |-> Str(<<"stable">>), params |-> EmptyDict, symbol |-> None,
     paginate |-> FALSE, page_param |-> "page", start_page |-> 0, max_pages |-> 1]

\* params of the tool calls of the whole-server specification: every shape of
\* explicit credential (absent, usable, blank, empty then padded, two aliases).
SysParams ==
    { EmptyDict,
      "apiKey" :> Str(<<"c">>),
      "api_key" :> Str(<<" ">>),
      ("apikey" :> Str(<<>>)) @@ ("api_key" :> Str(<<"c", " ">>)),
      ("apikey" :> Str(<<"d">>)) @@ ("apiKey" :> Str(<<"c">>)) }

SysArgs ==
    {[DefaultArgs EXCEPT !.params = q] : q \in SysParams}
    \cup {[DefaultArgs EXCEPT !.symbol = AAPL]}

SysResponses(pg) ==
    { RespOk(JsonList(<<Row(pg, 1), Row(pg, 2)>>)), RespStatus(401, Str(<<"Invalid", "API", "KEY">>)) }

\* params of the calls of the executor specification.
ExecParams == {EmptyDict, "apiKey" :> Str(<<"c">>), ("apikey" :> Str(<<" ", "c">>)) @@ ("page" :> IntV(7))}

ExecArgs ==
    {[DefaultArgs EXCEPT !.params = q] : q \in ExecParams}
    \cup {[DefaultArgs EXCEPT !.params = q, !.paginate = TRUE, !.page_param = pp,
                              !.start_page = sp, !.max_pages = mp] :
            q \in ExecParams, pp \in {"page", "apikey"}, sp \in 0..MaxStartPage, mp \in 0..MaxPagesArg}

Statuses == {302, 401, 404, 429, 501, 503}
BodyTexts == {Str(<<>>), Str(<<"Upgrade", "your", "PLAN">>)}
\* Exception texts: two plain ones, one that is the text of a JSON object
\* and one that starts with "{" and does not parse.
TransportMsgs ==
    { <<"timed out">>, <<"connection refused">>,
      <<"{", "code", "AUTH_INVALID", "}">>, <<"{", "oops">> }

ExecResponses(pg) ==
    {RespOk(b) : b \in OkBodies(pg)}
    \cup {RespMalformed}
    \cup {RespStatus(st, tx) : st \in Statuses, tx \in BodyTexts}
    \cup {RespTransport(m) : m \in TransportMsgs}

\* An upstream that refuses the key and repeats in its error text the apikey
\* query value it was sent.
EchoResponses(p) ==
    IF "apikey" \in DOMAIN p /\ p["apikey"].t = "str"
    THEN {RespStatus(401, Str(<<"Invalid", "API", "KEY">> \o p["apikey"].s))}
    ELSE {}

\* ------------------------------------------------------------------ actions: session-binding middleware

IdleReq == [pc |-> "idle", sid |-> "", key |-> None, ret |-> ""]

\* No synchronous handler is running: fmp_call (its time.sleep included)
\* holds the event loop until it returns.
LoopFree == call.pc = "idle"

\* SessionBinderMiddleware.dispatch up to `await call_next(request)`.
MiddlewareEnter(r) ==
    /\ LoopFree
    /\ req[r].pc = "idle"
    /\ \E sid \in SidHeaders, key \in TransportKeys :
         /\ req' = [req EXCEPT ![r] = [pc |-> "bound", sid |-> sid, key |-> key, ret |-> ""]]
         /\ SESSION_FMP_KEYS' = IF sid # "" /\ Truthy(key)
                                THEN DictSet(SESSION_FMP_KEYS, sid, Strip(key))
                                ELSE SESSION_FMP_KEYS
    /\ UNCHANGED <<DEFAULT_FMP_KEY_FROM_URL, defaultFrom, registered, call>>

\* Session ids the response header of request r can carry: none, the
\* session of the request, or for a request without one a session the MCP
\* application has just created.
ResponseSids(r) ==
    IF req[r].sid # "" THEN {"", req[r].sid}
    ELSE {""} \cup {s \in Sids : s \notin DOMAIN SESSION_FMP_KEYS /\ \A q \in ReqIds : req[q].sid # s}

\* SessionBinderMiddleware.dispatch after call_next returned.
MiddlewareExit(r) ==
    /\ LoopFree
    /\ req[r].pc = "handled"
    /\ \E resp_sid \in ResponseSids(r) :
         SESSION_FMP_KEYS' = IF resp_sid # "" /\ Truthy(req[r].key)
                             THEN DictSet(SESSION_FMP_KEYS, resp_sid, Strip(req[r].key))
                             ELSE SESSION_FMP_KEYS
    /\ IF Truthy(req[r].key)
       THEN /\ DEFAULT_FMP_KEY_FROM_URL' = Strip(req[r].key)
            /\ defaultFrom' = req[r].sid
       ELSE UNCHANGED <<DEFAULT_FMP_KEY_FROM_URL, defaultFrom>>
    /\ req' = [req EXCEPT ![r] = IdleReq]
    /\ UNCHANGED <<call, registered>>

\* ------------------------------------------------------------------ actions: handlers

\* A set_fmp_api_key without the empty-key test.
SetFmpApiKeyUnchecked(r, api_key) ==
    /\ LoopFree
    /\ req[r].pc = "bound"
    /\ LET sid == req[r].sid
           key == Strip(api_key)
       IN  IF sid = ""
           THEN /\ req' = [req EXCEPT ![r].pc = "handled", ![r].ret = "NO_SESSION"]
                /\ UNCHANGED SESSION_FMP_KEYS
           ELSE /\ req' = [req EXCEPT ![r].pc = "handled", ![r].ret = "ok"]
                /\ SESSION_FMP_KEYS' = DictSet(SESSION_FMP_KEYS, sid, key)
    /\ registered' = IF req[r].sid # "" /\ Truthy(Strip(api_key))
                     THEN [registered EXCEPT ![req[r].sid] = Strip(api_key)]
                     ELSE registered
    /\ UNCHANGED <<DEFAULT_FMP_KEY_FROM_URL, defaultFrom, call>>

\* set_fmp_api_key(api_key)
SetFmpApiKey(r, api_key) ==
    /\ LoopFree
    /\ req[r].pc = "bound"
    /\ LET sid == req[r].sid
           key == Strip(api_key)
       IN  IF sid = ""
           THEN /\ req' = [req EXCEPT ![r].pc = "handled", ![r].ret = "NO_SESSION"]
                /\ UNCHANGED SESSION_FMP_KEYS
           ELSE IF ~Truthy(key)
           THEN /\ req' = [req EXCEPT ![r].pc = "handled", ![r].ret = "EMPTY_KEY"]
                /\ UNCHANGED SESSION_FMP_KEYS
           ELSE /\ req' = [req EXCEPT ![r].pc = "handled", ![r].ret = "ok"]
                /\ SESSION_FMP_KEYS' = DictSet(SESSION_FMP_KEYS, sid, key)
    /\ registered' = IF req[r].sid # "" /\ Truthy(Strip(api_key))
                     THEN [registered EXCEPT ![req[r].sid] = Strip(api_key)]
                     ELSE registered
    /\ UNCHANGED <<DEFAULT_FMP_KEY_FROM_URL, defaultFrom, call>>

\* clear_fmp_api_key()
ClearFmpApiKey(r) ==
    /\ LoopFree
    /\ req[r].pc = "bound"
    /\ LET sid == req[r].sid
       IN  IF sid = ""
           THEN /\ req' = [req EXCEPT ![r].pc = "handled", ![r].ret = "NO_SESSION"]
                /\ UNCHANGED SESSION_FMP_KEYS
           ELSE /\ req' = [req EXCEPT ![r].pc = "handled", ![r].ret = "ok"]
                /\ SESSION_FMP_KEYS' = DictPop(SESSION_FMP_KEYS, sid)
    /\ registered' = IF req[r].sid # "" THEN [registered EXCEPT ![req[r].sid] = None]
                     ELSE registered
    /\ UNCHANGED <<DEFAULT_FMP_KEY_FROM_URL, defaultFrom, call>>

\* The fmp_call tool invoked by request r with arguments args.
ToolFmpCall(r, args) ==
    /\ LoopFree
    /\ req[r].pc = "bound"
    /\ call' = FmpCallEnter(r, req[r].sid, args)
    /\ req' = [req EXCEPT ![r].pc = "calling"]
    /\ UNCHANGED <<SESSION_FMP_KEYS, DEFAULT_FMP_KEY_FROM_URL, defaultFrom, registered>>

\* http_fmp_quote: the transport key, if any, becomes the explicit apiKey.
HttpFmpQuote(r) ==
    /\ LoopFree
    /\ req[r].pc = "bound"
    /\ LET qp0 == "symbol" :> AAPL
           qp == IF Truthy(req[r].key) THEN DictSet(qp0, "apiKey", req[r].key) ELSE qp0
       IN  call' = FmpCallEnter(r, req[r].sid, [DefaultArgs EXCEPT !.params = qp])
    /\ req' = [req EXCEPT ![r].pc = "calling"]
    /\ UNCHANGED <<SESSION_FMP_KEYS, DEFAULT_FMP_KEY_FROM_URL, defaultFrom, registered>>

\* fmp_call invoked in the context of session sid, the rest of the server at rest.
DirectCall(sid, args) ==
    /\ LoopFree
    /\ call' = FmpCallEnter("none", sid, args)
    /\ UNCHANGED <<SESSION_FMP_KEYS, DEFAULT_FMP_KEY_FROM_URL, defaultFrom, registered, req>>

\* ------------------------------------------------------------------ actions: the steps of a running fmp_call

\* A loop that, when it gives up, raises the HTTP failure of its first
\* attempt instead of the one it has just met.
AttemptStepFirstFailure(f, resp) ==
    LET g == [f EXCEPT !.nAttempts = f.nAttempts + 1,
                       !.lastSent = f.p,
                       !.delay = 0,
                       !.trace = Append(f.trace, TagOf(resp))]
    IN  IF resp.kind = "ok"
        THEN AfterChunk([g EXCEPT !.chunks = Append(f.chunks, resp.json)], resp.json)
        ELSE IF ShouldRetry(ExceptionOf(resp), g.attempt) THEN [g EXCEPT !.pc = "sleep"]
        ELSE IF Head(g.trace) >= 100
        THEN Catch([g EXCEPT !.body = resp.text], HTTPStatusError(Head(g.trace), resp.text))
        ELSE Catch([g EXCEPT !.body = resp.text], ExceptionOf(resp))

\* One pass of the while loop of _request_json: client.request(), then
\* return, sleep-and-retry or raise.
AttemptStep(f, resp) ==
    LET g == [f EXCEPT !.nAttempts = f.nAttempts + 1,
                       !.lastSent = f.p,
                       !.delay = 0,
                       !.trace = Append(f.trace, TagOf(resp))]
    IN  IF resp.kind = "ok"
        THEN AfterChunk([g EXCEPT !.chunks = Append(f.chunks, resp.json)], resp.json)
        ELSE IF ShouldRetry(ExceptionOf(resp), g.attempt) THEN [g EXCEPT !.pc = "sleep"]
        ELSE Catch([g EXCEPT !.body = resp.text], ExceptionOf(resp))

NetworkAttempt(resp) ==
    /\ call.pc = "request"
    /\ call' = AttemptStep(call, resp)
    /\ UNCHANGED <<SESSION_FMP_KEYS, DEFAULT_FMP_KEY_FROM_URL, defaultFrom, registered, req>>

\* time.sleep((2 ** attempt) + random.random()); attempt += 1; continue
Sleep(j) ==
    /\ call.pc = "sleep"
    /\ call' = [call EXCEPT !.pc = "request",
                            !.sleeps = Append(call.sleeps, BackoffUnits(call.attempt)),
                            !.delay = SleepTenths(call.attempt, j),
                            !.attempt = call.attempt + 1]
    /\ UNCHANGED <<SESSION_FMP_KEYS, DEFAULT_FMP_KEY_FROM_URL, defaultFrom, registered, req>>

\* The value of fmp_call reaches its caller and the frame is gone.
FmpCallReturn ==
    /\ call.pc = "done"
    /\ call' = IdleCall
    /\ req' = IF call.owner = "none" THEN req
              ELSE [req EXCEPT ![call.owner].pc = "handled"]
    /\ UNCHANGED <<SESSION_FMP_KEYS, DEFAULT_FMP_KEY_FROM_URL, defaultFrom, registered>>

\* ------------------------------------------------------------------ specifications

\* The server after import: empty store, no default key, no request.
Init ==
    /\ SESSION_FMP_KEYS = EmptyDict
    /\ DEFAULT_FMP_KEY_FROM_URL = None
    /\ defaultFrom = ""
    /\ registered = [s \in Sids |-> None]
    /\ req = [r \in ReqIds |-> IdleReq]
    /\ call = IdleCall

Next ==
    \/ \E r \in ReqIds : MiddlewareEnter(r)
    \/ \E r \in ReqIds : MiddlewareExit(r)
    \/ \E r \in ReqIds, k \in ToolKeys : SetFmpApiKey(r, k)
    \/ \E r \in ReqIds : ClearFmpApiKey(r)
    \/ \E r \in ReqIds, a \in SysArgs : ToolFmpCall(r, a)
    \/ \E r \in ReqIds : HttpFmpQuote(r)
    \/ \E resp \in SysResponses(call.page) : NetworkAttempt(resp)
    \/ FmpCallReturn

Spec == Init /\ [][Next]_vars

\* Credential stores the executor specification starts from.
ExecStores ==
    { [store |-> EmptyDict, default |-> None],
      [store |-> "s1" :> Str(<<"a">>), default |-> None] }

InitExec ==
    /\ \E st \in ExecStores :
         /\ SESSION_FMP_KEYS = st.store
         /\ DEFAULT_FMP_KEY_FROM_URL = st.default
    /\ defaultFrom = ""
    /\ registered = [s \in Sids |-> None]
    /\ req = [r \in ReqIds |-> IdleReq]
    /\ call = IdleCall

NextExec ==
    \/ \E a \in ExecArgs : DirectCall("s1", a)
    \/ \E resp \in ExecResponses(call.page) \cup EchoResponses(call.p) : NetworkAttempt(resp)
    \/ \E j \in Jitters : Sleep(j)
    \/ FmpCallReturn

SpecExec == InitExec /\ [][NextExec]_vars

\* ------------------------------------------------------------------ properties

\* The most attempts one _request_json makes: the first one and max_retries retries.
MaxAttempts == max_retries + 1

Last(seq) == seq[Len(seq)]

AllTags(seq, t) == \A i \in 1..Len(seq) : seq[i] = t

\* The aliases under which the caller of the running fmp_call passed a truthy value.
ExplicitAliases == {k \in {"apiKey", "apikey", "api_key"} :
                      k \in DOMAIN call.args.params /\ Truthy(call.args.params[k])}

\* The session of the running fmp_call had a stored credential when the call began.
SessionStored == call.sid # "" /\ call.sid \in DOMAIN call.store0

\* C1: fmp_call never raises: whatever its arguments, the credential store and
\* the upstream's answers on any attempt of any page, a finished call has
\* produced a value, the decoded payload or a dict {"_error": ...}.
C1_NeverRaises ==
    /\ call.pc = "done" => call.result.kind \in {"payload", "_error"}
    /\ call.pc \in {"request", "sleep"} => call.result = NoResult

\* A call that ended in an error value after transport faults on every attempt.
C1_Witness ==
    /\ call.pc = "done"
    /\ call.trace = <<-1, -1, -1, -1>>
    /\ call.result.kind = "_error"

\* C2: a call by a session that passes no explicit credential and has no
\* stored credential never sends upstream the process-wide default that a
\* request of another session put there; it ends in MISSING_API_KEY.
C2_NoForeignFallback ==
    (/\ call.pc # "idle"
     /\ ExplicitAliases = {}
     /\ call.sid # ""
     /\ ~SessionStored
     /\ defaultFrom # call.sid)
    => /\ call.nAttempts = 0
       /\ call.pc = "done"
       /\ call.result = ErrorResult(MissingApiKeyPayload)

\* C3: credential resolution takes the first source that matches: a truthy
\* explicit alias (stripped) before the credential stored for the session,
\* the stored credential before the process-wide default, None without any.
C3_ResolutionPriority ==
    call.pc # "idle" =>
        IF ExplicitAliases # {}
        THEN call.user_key \in {Strip(call.args.params[k]) : k \in ExplicitAliases}
        ELSE IF SessionStored THEN call.user_key = call.store0[call.sid]
        ELSE IF Truthy(call.default0) THEN call.user_key = call.default0
        ELSE call.user_key = None

\* All three sources hold different credentials and the explicit one is used.
C3_Witness ==
    /\ call.pc = "request"
    /\ ExplicitAliases # {}
    /\ SessionStored
    /\ Truthy(call.default0)
    /\ call.user_key = Str(<<"c">>)
    /\ call.store0[call.sid] = Str(<<"b">>)
    /\ call.default0 = Str(<<"a">>)

\* C4: with no truthy explicit alias, no credential stored for the session
\* and no default, fmp_call returns MISSING_API_KEY and makes no network attempt.
C4_MissingCredential ==
    (/\ call.pc # "idle"
     /\ ExplicitAliases = {}
     /\ ~SessionStored
     /\ ~Truthy(call.default0))
    => /\ call.pc = "done"
       /\ call.result = ErrorResult(MissingApiKeyPayload)
       /\ call.nAttempts = 0
       /\ call.nFetch = 0

\* A session-bound call that found no credential in any of the three places.
C4_Witness ==
    /\ call.pc = "done"
    /\ call.sid # ""
    /\ ExplicitAliases = {}
    /\ ~SessionStored
    /\ ~Truthy(call.default0)
    /\ call.result.kind = "_error"
    /\ call.result.value.code = "MISSING_API_KEY"

\* C5: every network attempt of an fmp_call, on every retry and every page,
\* carries under apikey a non-empty value equal to the resolved credential.
C5_AttemptsCarryResolvedKey ==
    call.nAttempts > 0 =>
        /\ "apikey" \in DOMAIN call.lastSent
        /\ Truthy(call.lastSent["apikey"])
        /\ call.lastSent["apikey"] = call.user_key

\* C6: when the upstream answers 503 on the first N-1 attempts and succeeds
\* on attempt N (1 <= N <= MaxAttempts), _request_json goes on to attempt N
\* and returns the payload after exactly N attempts.
C6_SucceedsOnAttemptN ==
    /\ (/\ call.trace # <<>>
        /\ Len(call.trace) < MaxAttempts
        /\ AllTags(call.trace, 503))
       => call.pc \in {"sleep", "request"}
    /\ (/\ call.trace # <<>>
        /\ Last(call.trace) = 200
        /\ AllTags(SubSeq(call.trace, 1, Len(call.trace) - 1), 503))
       => /\ Len(call.trace) <= MaxAttempts
          /\ call.attempt = Len(call.trace) - 1
          /\ Len(call.sleeps) = Len(call.trace) - 1
          /\ call.pc = "done"
          /\ call.result.kind = "payload"
          /\ ~call.args.paginate =>
                /\ call.nAttempts = Len(call.trace)
                /\ call.result.value \in OkBodies(call.page)

\* Three 503s and then a success on the fourth and last attempt.
C6_Witness ==
    /\ call.pc = "done"
    /\ ~call.args.paginate
    /\ call.trace = <<503, 503, 503, 200>>
    /\ call.nAttempts = 4
    /\ call.result = Payload(JsonList(<<Row(0, 1), Row(0, 2)>>))

C8_NonRetryableStatus ==
    \A i \in 1..Len(call.trace) :
        (call.trace[i] \in 400..499 /\ call.trace[i] # 429)
        => /\ i = Len(call.trace)
           /\ call.attempt = i - 1
           /\ call.pc = "done"
           /\ call.result.kind = "_error"
           /\ call.result.value = ClassifyFmpHttpError(call.args.service, call.args.endpoint,
                                                       call.trace[i], call.result.value.message)
           /\ (i = 1 /\ ~call.args.paginate) => call.nAttempts = 1

\* A 404 on the first response, one attempt, NOT_FOUND.
C8_Witness ==
    /\ call.pc = "done"
    /\ call.trace = <<404>>
    /\ call.nAttempts = 1
    /\ call.sleeps = <<>>
    /\ call.result.kind = "_error"
    /\ call.result.value.code = "NOT_FOUND"

\* C9: a 2xx response whose body cannot be decoded is not retried: the
\* attempt that meets it is the only one and the call ends at once.
C9_MalformedNotRetried ==
    (call.trace # <<>> /\ call.trace[1] = -2)
    => /\ Len(call.trace) = 1
       /\ call.pc = "done"
       /\ call.result.kind = "_error"

\* C10: when the fetch of a page fails, no further page is fetched and
\* fmp_call returns the classified error alone, with none of the rows of
\* the earlier pages.
C10_PaginationAllOrNothing ==
    (call.pc = "done" /\ call.failedPage)
    => /\ call.result.kind = "_error"
       /\ "items" \notin DOMAIN call.result.value
       /\ call.trace # <<>> => call.nFetch = call.iter + 1

\* The second page failed after the first page's rows had been gathered.
C10_Witness ==
    /\ call.pc = "done"
    /\ call.failedPage
    /\ call.iter = 1
    /\ call.nFetch = 2
    /\ call.all_rows = <<Row(0, 1), Row(0, 2)>>
    /\ call.trace = <<503, 503, 503, 503>>
    /\ call.result.kind = "_error"

\* ------------------------------------------------------------------ C14: the two key tools

\* The store after the step holds key under sid and every other entry as before.
StoredUnder(sid, key) ==
    SESSION_FMP_KEYS' = [s \in DOMAIN SESSION_FMP_KEYS \cup {sid} |->
                            IF s = sid THEN key ELSE SESSION_FMP_KEYS[s]]

\* The store after the step has no entry for sid and every other entry as before.
RemovedFrom(sid) ==
    SESSION_FMP_KEYS' = [s \in DOMAIN SESSION_FMP_KEYS \ {sid} |-> SESSION_FMP_KEYS[s]]

\* C14: set_fmp_api_key answers NO_SESSION without a session and EMPTY_KEY for
\* an empty or blank value and leaves the store alone in both cases, otherwise
\* it writes the (stripped) value under the caller's own session and nothing
\* else; clear_fmp_api_key answers NO_SESSION without a session and otherwise
\* removes the caller's own entry, if any, answers ok, and touches nothing else.
C14_SetAndClear ==
    [][\A r \in ReqIds :
         /\ \A k \in ToolKeys :
              SetFmpApiKey(r, k) =>
                  IF req[r].sid = ""
                  THEN req'[r].ret = "NO_SESSION" /\ SESSION_FMP_KEYS' = SESSION_FMP_KEYS
                  ELSE IF Strip(k).s = <<>>
                  THEN req'[r].ret = "EMPTY_KEY" /\ SESSION_FMP_KEYS' = SESSION_FMP_KEYS
                  ELSE req'[r].ret = "ok" /\ StoredUnder(req[r].sid, Strip(k))
         /\ ClearFmpApiKey(r) =>
                  IF req[r].sid = ""
                  THEN req'[r].ret = "NO_SESSION" /\ SESSION_FMP_KEYS' = SESSION_FMP_KEYS
                  ELSE req'[r].ret = "ok" /\ RemovedFrom(req[r].sid)
      ]_vars

\* One request was refused for a blank key while another stored "b" for s1,
\* next to the entry of s2.
C14_Witness ==
    \E r, q \in ReqIds :
        /\ req[r].pc = "handled" /\ req[r].sid # "" /\ req[r].ret = "EMPTY_KEY"
        /\ req[q].pc = "handled" /\ req[q].sid = "s1" /\ req[q].ret = "ok"
        /\ registered["s1"] = Str(<<"b">>)
        /\ SESSION_FMP_KEYS = ("s1" :> Str(<<"b">>)) @@ ("s2" :> Str(<<"a">>))

\* ------------------------------------------------------------------ C15: how long a registered key lasts

\* C15: once set_fmp_api_key(k) has succeeded in a session, every fmp_call of
\* that session without an explicit credential uses k, whatever requests of
\* that session came in between, until the session sets or clears its key.
C15_SetKeySticks ==
    (/\ call.pc # "idle"
     /\ call.sid # ""
     /\ ExplicitAliases = {}
     /\ registered[call.sid] # None)
    => call.user_key = registered[call.sid]

\* ------------------------------------------------------------------ C16, C17: pass-through and non-interference

\* params of the running call with the symbol argument merged in, as the
\* caller's values would give them.
MergedParams ==
    IF Truthy(call.args.symbol) /\ "symbol" \notin DOMAIN call.params0
    THEN DictSet(call.params0, "symbol", call.args.symbol) ELSE call.params0

\* C16: with pagination off the call makes one _request_json call with the
\* caller's parameters plus the credential (no page parameter is added, no
\* rows are accumulated), and on success returns the decoded payload as it
\* came, whatever its shape.
C16_PassThrough ==
    (call.pc # "idle" /\ ~call.args.paginate) =>
        /\ call.nFetch <= 1
        /\ call.all_rows = <<>>
        /\ call.nAttempts > 0 =>
               /\ call.lastSent = call.qp
               /\ DOMAIN call.lastSent = DOMAIN MergedParams \cup {"apikey"}
               /\ \A k \in DOMAIN MergedParams \ {"apikey"} : call.lastSent[k] = MergedParams[k]
        /\ call.chunks # <<>> =>
               /\ call.pc = "done"
               /\ Len(call.chunks) = 1
               /\ call.result = Payload(call.chunks[1])
        /\ (call.pc = "done" /\ call.result.kind = "payload") => call.chunks # <<>>

\* An empty object came back and is returned as it is; no page parameter went out.
C16_Witness ==
    /\ call.pc = "done"
    /\ ~call.args.paginate
    /\ call.nFetch = 1
    /\ "page" \notin DOMAIN call.lastSent
    /\ call.chunks = <<JsonObject(<<>>)>>
    /\ call.result = Payload(JsonObject(<<>>))

\* C17: an fmp_call changes nothing but its own frame: while it runs the
\* caller's params map, the session store and the default key are what they
\* were when it began (the credential and the page parameter go into copies;
\* the query the pages are built from stays the merged params plus the
\* credential), and when it returns the frame is gone, so an identical call
\* starts from the state the first one started from.
C17_CallLeavesNoTrace ==
    [][/\ (call.pc # "idle" =>
              /\ call.args.params = call.params0
              /\ SESSION_FMP_KEYS = call.store0
              /\ DEFAULT_FMP_KEY_FROM_URL = call.default0
              /\ call.pc \in {"request", "sleep"} =>
                     call.qp = DictSet(MergedParams, "apikey", call.user_key))'
       /\ (call.pc = "idle" /\ call'.pc # "idle") =>
            /\ SESSION_FMP_KEYS' = SESSION_FMP_KEYS
            /\ DEFAULT_FMP_KEY_FROM_URL' = DEFAULT_FMP_KEY_FROM_URL
       /\ (call.pc # "idle" /\ call'.pc # "idle") =>
            /\ call'.args = call.args
            /\ call'.qp = call.qp
       /\ (call.pc # "idle" /\ call'.pc = "idle") =>
            /\ call' = IdleCall
            /\ SESSION_FMP_KEYS' = call.store0
            /\ DEFAULT_FMP_KEY_FROM_URL' = call.default0
      ]_vars

\* A paginated call with an explicit credential finished its second page
\* with the store and the caller's params as they were.
C17_Witness ==
    /\ call.pc = "done"
    /\ call.args.paginate
    /\ call.nFetch = 2
    /\ call.args.params = "apiKey" :> Str(<<"c">>)
    /\ call.user_key = Str(<<"c">>)
    /\ call.lastSent = ("apiKey" :> Str(<<"c">>)) @@ ("apikey" :> Str(<<"c">>)) @@ ("page" :> IntV(1))
    /\ call.qp = ("apiKey" :> Str(<<"c">>)) @@ ("apikey" :> Str(<<"c">>))
    /\ SESSION_FMP_KEYS = "s1" :> Str(<<"a">>)

\* ------------------------------------------------------------------ C20: credentials and error payloads

\* The characters of needle occur in a row somewhere in hay.
Contains(hay, needle) ==
    \E i \in 1..(Len(hay) - Len(needle) + 1) : SubSeq(hay, i, i + Len(needle) - 1) = needle

\* The text fields an error payload can have.
TextFields == {"message", "endpoint", "service", "plan_hint", "explain_to_user"}

\* C20: whatever way an fmp_call fails (no credential, HTTP status error,
\* transport exception), no text field of the error payload it returns
\* contains the credential it resolved.
C20_NoCredentialEchoed ==
    (call.pc = "done" /\ call.result.kind = "_error" /\ Truthy(call.user_key)) =>
        \A k \in TextFields \cap DOMAIN call.result.value :
            ~Contains(call.result.value[k].s, call.user_key.s)

\* ------------------------------------------------------------------ the classifier on its own

\* Status codes response.raise_for_status() can raise with.
MinStatus == 100
MaxStatus == 599
ClassifyStatuses == (MinStatus..MaxStatus) \ (200..299)

\* Response texts: empty, plan wording in mixed case, wording without a
\* keyword, one keyword alone.
ClassifyBodies ==
    { Str(<<>>), Str(<<"Upgrade", "your", "PLAN">>), Str(<<"no", "such", "symbol">>), Str(<<"Quota">>) }

\* (service, endpoint) with and without a row in FMP_CATALOG.
ClassifyTargets ==
    { [service |-> Str(<<"stable">>), endpoint |-> Str(<<"quote">>)],
      [service |-> Str(<<"v3">>), endpoint |-> Str(<<"quote">>)] }

\* An fmp_call whose _paginate has just raised HTTPStatusError(st, tx).
Raising(tg, st, tx) ==
    [IdleCall EXCEPT !.pc = "except", !.args.service = tg.service, !.args.endpoint = tg.endpoint,
                     !.trace = <<st>>, !.body = tx]

InitClassify ==
    /\ SESSION_FMP_KEYS = EmptyDict
    /\ DEFAULT_FMP_KEY_FROM_URL = None
    /\ defaultFrom = ""
    /\ registered = [s \in Sids |-> None]
    /\ req = [r \in ReqIds |-> IdleReq]
    /\ \E tg \in ClassifyTargets, st \in ClassifyStatuses, tx \in ClassifyBodies :
         call = Raising(tg, st, tx)

\* except httpx.HTTPStatusError as e: return {"_error": _classify_fmp_http_error(...)}
ClassifyHttpError ==
    /\ call.pc = "except"
    /\ call' = Catch(call, HTTPStatusError(call.trace[1], call.body))
    /\ UNCHANGED <<SESSION_FMP_KEYS, DEFAULT_FMP_KEY_FROM_URL, defaultFrom, registered, req>>

NextClassify == ClassifyHttpError

SpecClassify == InitClassify /\ [][NextClassify]_vars

\* ------------------------------------------------------------------ path normalisation on its own

\* Service tags: every tag of the table in lower and upper or mixed case, a
\* padded one, the empty one and tags the table does not know.
PathServices ==
    {Str(<<w>>) : w \in {"stable", "STABLE", "v3", "V3", "v4", "V4", "api", "API",
                         "legacy", "Legacy", "raw", "RAW", "bogus", "v5"}}
    \cup {Str(<<>>), Str(<<" ", "V3", " ">>), Str(<<"stable", "x">>)}

\* Endpoints: relative ones (one empty, one with an upper-case scheme that
\* startswith does not match), absolute paths and absolute URLs.
PathEndpoints ==
    { Str(<<"quote">>), Str(<<>>), Str(<<"profile", "/", "AAPL">>), Str(<<"HTTP://", "h", "/", "x">>),
      Str(<<"/", "api", "/", "v3", "/", "quote">>), Str(<<"/">>),
      Str(<<"http://", "h", "/", "x">>), Str(<<"https://", "h", "/", "x">>) }

InitPath ==
    /\ SESSION_FMP_KEYS = EmptyDict
    /\ DEFAULT_FMP_KEY_FROM_URL = None
    /\ defaultFrom = ""
    /\ registered = [s \in Sids |-> None]
    /\ req = [r \in ReqIds |-> IdleReq]
    /\ \E sv \in PathServices, ep \in PathEndpoints :
         call = [IdleCall EXCEPT !.pc = "norm", !.args.service = sv, !.args.endpoint = ep]

\* url_or_path = _norm_path(service, endpoint)
NormPathStep ==
    /\ call.pc = "norm"
    /\ call' = [call EXCEPT !.pc = "done",
                            !.url_or_path = NormPath(call.args.service, call.args.endpoint)]
    /\ UNCHANGED <<SESSION_FMP_KEYS, DEFAULT_FMP_KEY_FROM_URL, defaultFrom, registered, req>>

NextPath == NormPathStep

SpecPath == InitPath /\ [][NextPath]_vars

\* ------------------------------------------------------------------ C18, C19: _norm_path

\* The endpoint is neither an absolute URL nor an absolute path.
RelativeEndpoint(endpoint) ==
    endpoint.s = <<>> \/ Head(endpoint.s) \notin {"http://", "https://", "/"}

\* The prefix the spec's table gives a service tag, read without regard to
\* case and surrounding blanks.
TablePrefix(service) ==
    LET tag == Strip(Lower(service)).s
    IN  CASE tag = <<"stable">> -> <<"/", "stable", "/">>
          [] tag = <<"v3">> -> <<"/", "api", "/", "v3", "/">>
          [] tag = <<"v4">> -> <<"/", "api", "/", "v4", "/">>
          [] tag \in {<<"api">>, <<"legacy">>} -> <<"/", "api", "/", "v3", "/">>
          [] tag = <<"raw">> -> <<"/">>
          [] OTHER -> <<"/", "stable", "/">>

\* C18: for a relative endpoint _norm_path always yields a path: the prefix
\* of the service tag, taken case-insensitively (the stable prefix for a tag
\* the table does not know), followed by the endpoint.
C18_PrefixFromTag ==
    (call.pc = "done" /\ RelativeEndpoint(call.args.endpoint)) =>
        /\ call.url_or_path.t = "str"
        /\ call.url_or_path.s = TablePrefix(call.args.service) \o call.args.endpoint.s

\* The mixed-case tag Legacy gave the /api/v3/ prefix.
C18_Witness ==
    /\ call.pc = "done"
    /\ call.args.service = Str(<<"Legacy">>)
    /\ call.args.endpoint = Str(<<"profile", "/", "AAPL">>)
    /\ call.url_or_path = Str(<<"/", "api", "/", "v3", "/", "profile", "/", "AAPL">>)

\* C19: an endpoint that is an absolute URL (http:// or https://) or starts
\* with "/" comes back unchanged, whatever the service tag.
C19_AbsoluteUnchanged ==
    (call.pc = "done" /\ ~RelativeEndpoint(call.args.endpoint)) =>
        call.url_or_path = call.args.endpoint

\* An absolute path under the raw tag came back as it was.
C19_Witness ==
    /\ call.pc = "done"
    /\ call.args.service = Str(<<"RAW">>)
    /\ call.args.endpoint = Str(<<"/", "api", "/", "v3", "/", "quote">>)
    /\ call.url_or_path = call.args.endpoint

\* ------------------------------------------------------------------ C13: the status table

\* The code the spec's table gives a status.
TableCode(status) ==
    CASE status = 401 -> "AUTH_INVALID"
      [] status = 402 -> "PAYMENT_REQUIRED"
      [] status = 403 -> "PLAN_OR_PERMISSION"
      [] status = 429 -> "RATE_LIMIT"
      [] status = 404 -> "NOT_FOUND"
      [] status \notin {401, 402, 403, 429, 404} /\ status >= 500 -> "UPSTREAM_ERROR"
      [] OTHER -> "UNKNOWN"

\* C13: the code of a classified error is the table's code for the status,
\* whatever the response text says.
C13_CodeFromStatusAlone ==
    (call.pc = "done" /\ call.trace # <<>> /\ call.trace[Len(call.trace)] \in ClassifyStatuses) =>
        /\ call.result.kind = "_error"
        /\ call.result.value.code = TableCode(call.trace[Len(call.trace)])
        /\ call.result.value.status = call.trace[Len(call.trace)]

\* A status without a row of its own, classified with plan wording in the body.
C13_Witness ==
    /\ call.pc = "done"
    /\ call.trace = <<400>>
    /\ PlanLike(call.body)
    /\ call.result.kind = "_error"
    /\ call.result.value.code = "UNKNOWN"
    /\ call.result.value.needs_user_confirmation

\* ------------------------------------------------------------------ C11, C12: pagination

\* Every value _request_json handed back to this call is a list.
AllLists(cs) == \A i \in 1..Len(cs) : cs[i].type = "list"

RECURSIVE Flatten(_)
\* The elements of the lists cs, in the order of cs and of each list.
Flatten(cs) == IF cs = <<>> THEN <<>> ELSE Head(cs).items \o Flatten(Tail(cs))

\* The non-empty list the upstream serves as page pg.
PageOf(pg) == JsonList(<<Row(pg, 1), Row(pg, 2)>>)

\* C11: with pagination on and every page a list, the i-th value fetched is
\* page start_page + i - 1, the rows gathered are the pages joined in page
\* order with the order inside each page kept, an empty page is the last one
\* fetched (k non-empty pages and the empty one make k + 1 fetches), and the
\* value returned is the join of the k non-empty pages.
C11_ConcatInPageOrder ==
    (call.args.paginate /\ AllLists(call.chunks)) =>
        LET n == Len(call.chunks)
            sp == call.args.start_page
        IN  /\ \A i \in 1..n : call.chunks[i] \in {PageOf(sp + i - 1), JsonList(<<>>)}
            /\ call.all_rows = Flatten(call.chunks)
            /\ \A i \in 1..n :
                 call.chunks[i].items = <<>> =>
                     /\ i = n
                     /\ call.pc = "done"
                     /\ call.nFetch = n
                     /\ call.result = Payload(JsonList(Flatten(SubSeq(call.chunks, 1, n - 1))))
            /\ (call.pc = "done" /\ call.result.kind = "payload") =>
                   call.result.value = JsonList(Flatten(call.chunks))

\* One non-empty page and then an empty one, with room for a second page.
C11_Witness ==
    /\ call.pc = "done"
    /\ call.args.paginate
    /\ call.args.max_pages = 2
    /\ call.args.start_page = 1
    /\ call.chunks = <<PageOf(1), JsonList(<<>>)>>
    /\ call.nFetch = 2
    /\ call.result = Payload(JsonList(<<Row(1, 1), Row(1, 2)>>))

\* C12: a paginated call never makes more than max_pages page fetches (none
\* when max_pages is below 1), and when max_pages values have come back the
\* call is over: with max_pages = 2 and non-empty pages it makes exactly two.
C12_AtMostMaxPages ==
    call.args.paginate =>
        /\ call.nFetch <= (IF call.args.max_pages >= 1 THEN call.args.max_pages ELSE 0)
        /\ Len(call.chunks) <= call.nFetch
        /\ (call.args.max_pages >= 1 /\ Len(call.chunks) = call.args.max_pages) =>
               /\ call.pc = "done"
               /\ call.nFetch = call.args.max_pages

\* Two non-empty pages under max_pages = 2: two fetches and the call is over.
C12_Witness ==
    /\ call.pc = "done"
    /\ call.args.paginate
    /\ call.args.max_pages = 2
    /\ call.chunks = <<PageOf(call.args.start_page), PageOf(call.args.start_page + 1)>>
    /\ call.nFetch = 2
    /\ call.result = Payload(JsonList(Flatten(call.chunks)))

\* ------------------------------------------------------------------ credential resolution beside a concurrent writer

\* SESSION_FMP_KEYS[sid] for a sid that is not in the dict.
KeyError(sid) == [type |-> "KeyError", status |-> 0, text |-> Str(<<>>), msg |-> <<sid>>]

\* fmp_call from `if not user_key` on, with the credential the resolver returned.
AfterResolve(f, user_key) ==
    IF KeyMissing(user_key)
    THEN [f EXCEPT !.pc = "done", !.user_key = user_key, !.result = ErrorResult(MissingApiKeyPayload)]
    ELSE PaginateEnter([f EXCEPT !.user_key = user_key, !.qp = DictSet(f.qp, "apikey", user_key)])

\* Values another request of the session registers meanwhile.
RaceKeys == {Str(<<"a">>), Str(<<"b">>), Str(<<" ">>)}

\* fmp_call on a thread of its own, in the context of session sid, up to the
\* membership test `sid in SESSION_FMP_KEYS` of _resolve_user_fmp_key: when
\* the test succeeds the thread stands before the read SESSION_FMP_KEYS[sid].
ThreadCallBegin(sid, args) ==
    /\ call.pc = "idle"
    /\ LET qp0 == args.params
           qp1 == IF Truthy(args.symbol) /\ "symbol" \notin DOMAIN qp0
                  THEN DictSet(qp0, "symbol", args.symbol) ELSE qp0
           f == [IdleCall EXCEPT !.owner = "none", !.sid = sid, !.args = args,
                                 !.params0 = args.params,
                                 !.store0 = SESSION_FMP_KEYS, !.default0 = DEFAULT_FMP_KEY_FROM_URL,
                                 !.url_or_path = NormPath(args.service, args.endpoint),
                                 !.qp = qp1]
       IN  call' = IF AliasHits(qp1) # {} THEN AfterResolve(f, Strip(qp1[FirstAlias(qp1)]))
                   ELSE IF sid # "" /\ sid \in DOMAIN SESSION_FMP_KEYS THEN [f EXCEPT !.pc = "read"]
                   ELSE IF Truthy(DEFAULT_FMP_KEY_FROM_URL) THEN AfterResolve(f, DEFAULT_FMP_KEY_FROM_URL)
                   ELSE AfterResolve(f, None)
    /\ UNCHANGED <<SESSION_FMP_KEYS, DEFAULT_FMP_KEY_FROM_URL, defaultFrom, registered, req>>

\* return SESSION_FMP_KEYS[sid]: the value now stored, or KeyError when the
\* entry has gone since the test; the resolver is called outside the try of
\* fmp_call, so the KeyError leaves fmp_call.
ThreadCallRead ==
    /\ call.pc = "read"
    /\ call' = IF call.sid \in DOMAIN SESSION_FMP_KEYS
               THEN AfterResolve(call, SESSION_FMP_KEYS[call.sid])
               ELSE [call EXCEPT !.pc = "done", !.result = Raised(KeyError(call.sid))]
    /\ UNCHANGED <<SESSION_FMP_KEYS, DEFAULT_FMP_KEY_FROM_URL, defaultFrom, registered, req>>

\* set_fmp_api_key(api_key) of another request of session sid, run while the
\* fmp_call thread is wherever it is.
ConcurrentSet(sid, api_key) ==
    /\ Truthy(Strip(api_key))
    /\ SESSION_FMP_KEYS' = DictSet(SESSION_FMP_KEYS, sid, Strip(api_key))
    /\ registered' = [registered EXCEPT ![sid] = Strip(api_key)]
    /\ UNCHANGED <<DEFAULT_FMP_KEY_FROM_URL, defaultFrom, req, call>>

\* clear_fmp_api_key() of another request of session sid.
ConcurrentClear(sid) ==
    /\ SESSION_FMP_KEYS' = DictPop(SESSION_FMP_KEYS, sid)
    /\ registered' = [registered EXCEPT ![sid] = None]
    /\ UNCHANGED <<DEFAULT_FMP_KEY_FROM_URL, defaultFrom, req, call>>

NextRace ==
    \/ \E a \in SysArgs : ThreadCallBegin("s1", a)
    \/ ThreadCallRead
    \/ \E k \in RaceKeys : ConcurrentSet("s1", k)
    \/ ConcurrentClear("s1")
    \/ \E resp \in SysResponses(call.page) : NetworkAttempt(resp)
    \/ FmpCallReturn

SpecRace == Init /\ [][NextRace]_vars

\* ------------------------------------------------------------------ C21: resolution beside register and clear

\* C21: whatever a concurrent set_fmp_api_key or clear_fmp_api_key of the same
\* session does and whenever it does it, the resolution ends with a stored
\* value (the old or the new one) or with none and fmp_call does not raise:
\* a clear between the membership test and the read is harmless.
C21_ResolutionNeverFaults ==
    /\ call.result.kind # "raised"
    /\ (call.pc \in {"request", "done"} /\ ExplicitAliases = {} /\ Truthy(call.user_key)) =>
           call.user_key \in {Str(<<"a">>), Str(<<"b">>)}

\* ------------------------------------------------------------------ the retry loop against every status

\* One plain call by a session with a stored key; the upstream answers each
\* attempt with any status response.raise_for_status() raises for, or with a page.
InitRetry ==
    /\ SESSION_FMP_KEYS = "s1" :> Str(<<"a">>)
    /\ DEFAULT_FMP_KEY_FROM_URL = None
    /\ defaultFrom = ""
    /\ registered = [s \in Sids |-> None]
    /\ req = [r \in ReqIds |-> IdleReq]
    /\ call = IdleCall

RetryResponses(pg) ==
    {RespStatus(st, Str(<<>>)) : st \in ClassifyStatuses} \cup {RespOk(PageOf(pg))}

NextRetry ==
    \/ DirectCall("s1", DefaultArgs)
    \/ \E resp \in RetryResponses(call.page) : NetworkAttempt(resp)
    \/ Sleep(0)
    \/ FmpCallReturn

SpecRetry == InitRetry /\ [][NextRetry]_vars

\* ------------------------------------------------------------------ C22: retry policy and classifier table

\* The i-th attempt of the running _request_json was followed by a retry.
Retried(i) == i < Len(call.trace) \/ call.pc \in {"sleep", "request"}

C23_LastFailureReported ==
    /\ Len(call.trace) <= MaxAttempts
    /\ (call.pc \in {"sleep", "done"} /\ call.trace # <<>>) => call.attempt = Len(call.trace) - 1
    /\ (call.pc = "done" /\ call.trace # <<>> /\ Last(call.trace) # 200) =>
           /\ call.result.kind = "_error"
           /\ IF Last(call.trace) >= 100
              THEN call.result.value = ClassifyFmpHttpError(call.args.service, call.args.endpoint,
                                                            Last(call.trace), call.body)
              ELSE IF Last(call.trace) = -1
              THEN call.result.value = ErrorPayloadFromException(TransportError(call.body.s))
              ELSE call.result.value = ErrorPayloadFromException(JSONDecodeError)

\* A rate limit and two exceptions were retried; the fourth attempt met a
\* 503, the retries were used up and only the 503 is reported.
C23_Witness ==
    /\ call.pc = "done"
    /\ call.trace = <<429, -1, -1, 503>>
    /\ call.attempt = 3
    /\ call.sleeps = <<1, 2, 4>>
    /\ call.result.kind = "_error"
    /\ call.result.value.code = "UPSTREAM_ERROR"
    /\ call.result.value.status = 503

\* ------------------------------------------------------------------ C24: page numbers and the non-list page

\* C24: the i-th page fetch of a paginated call goes out with page_param set
\* to start_page + i - 1, in place of whatever the caller passed under that
\* name and with the rest of the query untouched; a page that is a non-empty
\* object instead of a list is appended to the rows and is the last fetched.
C24_PageParamAndObjectPage ==
    call.args.paginate =>
        /\ call.pc \in {"request", "sleep"} =>
               call.p = DictSet(call.qp, call.args.page_param,
                                IntV(call.args.start_page + call.nFetch - 1))
        /\ call.trace # <<>> =>
               call.lastSent = DictSet(call.qp, call.args.page_param,
                                       IntV(call.args.start_page + call.nFetch - 1))
        /\ \A i \in 1..Len(call.chunks) :
               (call.chunks[i].type = "object" /\ ~Falsy(call.chunks[i])) =>
                   /\ i = Len(call.chunks)
                   /\ call.nFetch = i
                   /\ call.pc = "done"
                   /\ call.result =
                          Payload(JsonList(Flatten(SubSeq(call.chunks, 1, i - 1)) \o <<call.chunks[i]>>))

\* The caller passed page = 7 and start_page = 1: page 1 was asked for, it
\* was an object, and the call ended with room for another page.
C24_Witness ==
    /\ call.pc = "done"
    /\ call.args.paginate
    /\ call.args.page_param = "page"
    /\ call.args.start_page = 1
    /\ call.args.max_pages = 2
    /\ "page" \in DOMAIN call.args.params
    /\ call.args.params["page"] = IntV(7)
    /\ call.lastSent["page"] = IntV(1)
    /\ call.nFetch = 1
    /\ call.chunks = <<JsonObject(<<1, 0>>)>>
    /\ call.result = Payload(JsonList(<<JsonObject(<<1, 0>>)>>))

\* ------------------------------------------------------------------ C25: exceptions without an HTTP status

\* The running call ended on an exception of the transport, its retries used up.
TransportFailure == call.pc = "done" /\ call.trace # <<>> /\ Last(call.trace) = -1

HasKeyword(text) ==
    \E i \in 1..Len(text.s) :
        \E w \in {"plan", "upgrade", "permission", "not allowed", "access", "payment", "quota", "rate limit"} :
            LowerChar(text.s[i]) = w

\* C26: against the classification of the same failure with an empty body,
\* a keyword in the body leaves the code alone and never takes
\* needs_user_confirmation back; it sets needs_user_confirmation when the
\* status is not 404 and changes nothing but the message when it is 404.
C26_KeywordOnlyStricter ==
    (call.pc = "done" /\ call.trace # <<>> /\ Last(call.trace) \in ClassifyStatuses) =>
        LET st == Last(call.trace)
            plain == ClassifyFmpHttpError(call.args.service, call.args.endpoint, st, Str(<<>>))
            got == call.result.value
        IN  /\ call.result.kind = "_error"
            /\ got.code = plain.code
            /\ plain.needs_user_confirmation => got.needs_user_confirmation
            /\ (HasKeyword(call.body) /\ st # 404) => got.needs_user_confirmation
            /\ (~HasKeyword(call.body) \/ st = 404) =>
                   got.needs_user_confirmation = plain.needs_user_confirmation
            /\ [got EXCEPT !.message = Str(<<>>), !.needs_user_confirmation = FALSE]
                   = [plain EXCEPT !.needs_user_confirmation = FALSE]

\* A 404 whose body has plan wording in capitals: NOT_FOUND, no confirmation asked.
C26_Witness ==
    /\ call.pc = "done"
    /\ call.trace = <<404>>
    /\ call.body = Str(<<"Upgrade", "your", "PLAN">>)
    /\ call.result.kind = "_error"
    /\ call.result.value.code = "NOT_FOUND"
    /\ ~call.result.value.needs_user_confirmation


\* ------------------------------------------------------------------ C27

\* C27: the sleep before the k-th retry lasts 2^(k-1) time-units plus a jitter
\* in [0, 1): the whole parts are 1, 2, 4 in that order.  A sleep stands
\* between two attempts only: k sleeps have been taken when the (k+1)-th
\* attempt is pending, and a request that ended, failed or not, took one
\* sleep less than it made attempts, so none follows the last attempt.
C27_BackoffSchedule ==
    LET k == Len(call.sleeps)
    IN  /\ k <= max_retries
        /\ call.sleeps = SubSeq(<<1, 2, 4>>, 1, k)
        /\ \A i \in 1..k : call.sleeps[i] = Pow2(i - 1)
        /\ (call.pc = "request" /\ k > 0) =>
              /\ Len(call.trace) = k
              /\ call.delay >= 10 * Pow2(k - 1)
              /\ call.delay < 10 * Pow2(k - 1) + 10
        /\ (call.pc = "sleep") => (Len(call.trace) = k + 1 /\ k < max_retries)
        /\ (call.pc = "done" /\ call.trace # <<>>) => Len(call.trace) = k + 1

\* Four attempts failed: the sleeps 1, 2, 4 were taken between them and none
\* after the fourth failure.
C27_Witness ==
    /\ call.pc = "done"
    /\ Len(call.trace) = max_retries + 1
    /\ call.result.kind = "_error"
    /\ call.sleeps = <<1, 2, 4>>
    /\ call.nAttempts = max_retries + 1


\* ------------------------------------------------------------------ C28

C29_FetchBeforeSuccess ==
    (/\ call.pc = "done"
     /\ call.args.paginate
     /\ Truthy(call.user_key)
     /\ call.result.kind = "payload")
    => (call.nAttempts >= 1 /\ call.nFetch >= 1)

====
